---- MODULE Spec2Model ----
(***************************************************************************)
(* Model of src/cli/command.rs: one invocation of the command line tool.   *)
(* Cli::start parses the arguments, then runs either the keypair-transform *)
(* handler or the transaction-send handler.  Every `unwrap`/`expect` that  *)
(* can fail is a panic: the process stops there with exit status 101.      *)
(* Optional values (Rust Option<T>) are sequences of length 0 or 1.        *)
(***************************************************************************)
EXTENDS Integers, Sequences, FiniteSets, TLC

\* ------------------------------------------------------------------ bounds
NumKeypairs == 2

\* ------------------------------------------------------------ value spaces
None == <<>>
Some(x) == <<x>>
Option(S) == {None} \cup {Some(x) : x \in S}

Format == {"Base58", "Bytes"}

Keypairs == 1..NumKeypairs
Pubkey(kp) == [pub |-> kp]

\* Texts a keypair can be written as: the base-58 string of its 64 bytes,
\* the JSON byte array "[12, 34, ...]", and a text that is neither.
Garbage == [enc |-> "garbage", key |-> 0]
KeypairTexts == [enc : {"base58", "bytes"}, key : Keypairs] \cup {Garbage}

\* Keypair::to_base58_string / Keypair::to_bytes as printed
EncodeKeypair(kp, format) ==
    IF format = "Base58" THEN [enc |-> "base58", key |-> kp]
                         ELSE [enc |-> "bytes", key |-> kp]

\* create_keypair: Some(keypair), or None where the code panics
create_keypair(kp_value, format) ==
    IF format = "Base58"
    THEN IF kp_value.enc = "base58" THEN Some(kp_value.key) ELSE None
    ELSE IF kp_value.enc = "bytes" THEN Some(kp_value.key) ELSE None

\* ------------------------------------------------------------ transactions
DefaultSignature == [by |-> Pubkey(0), over |-> None]
SignMessage(kp, message) == [by |-> Pubkey(kp), over |-> Some(message)]

MsgSingle == [signers |-> <<Pubkey(1)>>, recent_blockhash |-> "B1",
              instructions |-> "transfer"]
MsgMulti == [signers |-> <<Pubkey(1), Pubkey(2)>>, recent_blockhash |-> "B2",
             instructions |-> "swap"]
TxSingle == [message |-> MsgSingle, signatures |-> <<DefaultSignature>>]
TxMulti == [message |-> MsgMulti,
            signatures |-> <<SignMessage(1, MsgMulti), DefaultSignature>>]

\* values of --transaction: not base64; base64 of bytes that are no
\* transaction; base64 of the two sample transactions
TransactionStrings == {"%%%", "AAAA", "b64(TxSingle)", "b64(TxMulti)"}

\* base64::decode: Some(bytes) or None (Err)
Base64Decode(s) ==
    CASE s = "%%%" -> None
      [] s = "AAAA" -> Some("000000")
      [] s = "b64(TxSingle)" -> Some("bincode(TxSingle)")
      [] s = "b64(TxMulti)" -> Some("bincode(TxMulti)")

\* bincode::deserialize::<Transaction>: Some(tx) or None (Err)
Deserialize(bytes) ==
    CASE bytes = "bincode(TxSingle)" -> Some(TxSingle)
      [] bytes = "bincode(TxMulti)" -> Some(TxMulti)
      [] OTHER -> None

\* the whole decode of lines 78-79: None where either unwrap panics
DecodeTransaction(s) ==
    IF Base64Decode(s) = None THEN None ELSE Deserialize(Base64Decode(s)[1])

\* the blockhash handed to partial_sign
SignerBlockhash_fresh(t) == "B9"
SignerBlockhash(t) == t.message.recent_blockhash

\* Transaction::partial_sign(&[kp], recent_blockhash): None where it panics
\* (the keypair is not one of the message's signers); a blockhash other than
\* the message's replaces it and clears every signature before signing
PartialSign(t, kp, recent_blockhash) ==
    LET keys == t.message.signers
        pos == {i \in 1..Len(keys) : keys[i] = Pubkey(kp)}
        fresh == recent_blockhash # t.message.recent_blockhash
        msg == [t.message EXCEPT !.recent_blockhash = recent_blockhash]
        sigs == IF fresh
                THEN [i \in 1..Len(t.signatures) |-> DefaultSignature]
                ELSE t.signatures
    IN IF pos = {} THEN None
       ELSE LET p == CHOOSE i \in pos : \A j \in pos : i <= j
            IN Some([message |-> msg,
                     signatures |-> [sigs EXCEPT ![p] = SignMessage(kp, msg)]])

\* --------------------------------------------------------------- arguments
Paths == {"id.json", "other.json"}
Urls == {"d", "devnet", "https://custom.example"}

normalize_to_url_if_moniker(url) ==
    CASE url \in {"m", "mainnet-beta"} -> "https://api.mainnet-beta.solana.com"
      [] url \in {"t", "testnet"} -> "https://api.testnet.solana.com"
      [] url \in {"d", "devnet"} -> "https://api.devnet.solana.com"
      [] url \in {"l", "localhost"} -> "http://localhost:8899"
      [] OTHER -> url

NoArgs == [cmd |-> "none", transform |-> None, path |-> None, value |-> None,
           url |-> None, transaction |-> None, signer |-> None, format |-> None]

KeypairTransformArgs ==
    {[NoArgs EXCEPT !.cmd = "keypair-transform", !.transform = t,
                    !.path = p, !.value = v] :
        t \in Option(Format), p \in Option(Paths), v \in Option(KeypairTexts)}

TransactionSendArgs ==
    {[NoArgs EXCEPT !.cmd = "transaction-send", !.url = u, !.transaction = t,
                    !.signer = s, !.format = f] :
        u \in Option(Urls), t \in Option(TransactionStrings),
        s \in Option(Paths), f \in Option(Format)}

CommandLines == {NoArgs} \cup KeypairTransformArgs \cup TransactionSendArgs

\* Cli::parse(): what clap accepts, from the #[arg] attributes
ParseOk_noRequiredUnless(a) ==
    CASE a.cmd = "none" -> TRUE
      [] a.cmd = "keypair-transform" -> a.transform # None
      [] a.cmd = "transaction-send" -> a.url # None /\ a.transaction # None
ParseOk(a) ==
    CASE a.cmd = "none" -> TRUE
      [] a.cmd = "keypair-transform" ->
            a.transform # None /\ (a.value # None \/ a.path # None)
      [] a.cmd = "transaction-send" -> a.url # None /\ a.transaction # None

\* lines 66-69: the format the input is read in
OppositeFormat_same(transform) == transform
OppositeFormat(transform) == IF transform = "Base58" THEN "Bytes" ELSE "Base58"

\* lines 83-86: the format the signer's keypair is read in
SignerFormat_base58(format) == IF format = None THEN "Base58" ELSE format[1]
SignerFormat(format) == IF format = None THEN "Bytes" ELSE format[1]

\* read_keypair_file_as_str (104-114): the text read and the line printed,
\* or the panic of the failing expect
read_keypair_file_as_str_printFirst(path, files) ==
    IF files[path] = None
    THEN [panic |-> Some("could not open keypair file"),
          lines |-> <<<<"Read keypair", None>>>>, result |-> None]
    ELSE [panic |-> None, lines |-> <<<<"Read keypair", files[path]>>>>,
          result |-> files[path]]
read_keypair_file_as_str(path, files) ==
    IF files[path] = None
    THEN [panic |-> Some("could not open keypair file"),
          lines |-> <<>>, result |-> None]
    ELSE [panic |-> None, lines |-> <<<<"Read keypair", files[path]>>>>,
          result |-> files[path]]

\* ------------------------------------------------------------------- state
VARIABLES
    args,          \* the command line
    fs,            \* file system: path -> Some(text) or None (cannot be read)
    pc,            \* position in Cli::start
    exit,          \* None while running, else Some(exit status)
    stdout,        \* lines printed, <<tag, payload>>
    stderr,        \* lines printed by clap or the panic handler
    client,        \* Some(url of the RpcClient)
    tx,            \* Some(the transaction being prepared)
    kp_raw_value,  \* Some(keypair text)
    kp,            \* Some(keypair created)
    tx_result,     \* Some(result of send_and_confirm_transaction)
    opened,        \* paths File::open was called on
    created,       \* calls of create_keypair: <<text, format>>
    sent           \* transactions handed to send_and_confirm_transaction

vars == <<args, fs, pc, exit, stdout, stderr, client, tx, kp_raw_value, kp,
          tx_result, opened, created, sent>>

Init ==
    /\ args \in CommandLines
    /\ fs \in [Paths -> Option(KeypairTexts)]
    /\ pc = "parse"
    /\ exit = None
    /\ stdout = <<>>
    /\ stderr = <<>>
    /\ client = None
    /\ tx = None
    /\ kp_raw_value = None
    /\ kp = None
    /\ tx_result = None
    /\ opened = {}
    /\ created = <<>>
    /\ sent = <<>>

println(tag, payload) == stdout' = Append(stdout, <<tag, payload>>)

\* a panic: message on stderr, exit status 101
Panic(msg) ==
    /\ stderr' = Append(stderr, msg)
    /\ exit' = Some(101)
    /\ pc' = "exited"

Return ==
    /\ exit' = Some(0)
    /\ pc' = "exited"

\* line 57
Parse ==
    /\ pc = "parse"
    /\ IF ParseOk(args)
       THEN /\ pc' = "match"
            /\ UNCHANGED <<exit, stderr>>
       ELSE /\ stderr' = Append(stderr, "error: usage")
            /\ exit' = Some(2)
            /\ pc' = "exited"
    /\ UNCHANGED <<args, fs, stdout, client, tx, kp_raw_value, kp, tx_result,
                   opened, created, sent>>

\* line 99
NoCommand ==
    /\ pc = "match"
    /\ args.cmd = "none"
    /\ println("help", None)
    /\ Return
    /\ UNCHANGED <<args, fs, stderr, client, tx, kp_raw_value, kp, tx_result,
                   opened, created, sent>>

\* lines 60-65
KeypairSource ==
    /\ pc = "match"
    /\ args.cmd = "keypair-transform"
    /\ IF args.path # None /\ args.value = None
       THEN LET read == read_keypair_file_as_str(args.path[1], fs)
            IN /\ opened' = opened \cup {args.path[1]}
               /\ stdout' = stdout \o read.lines
               /\ kp_raw_value' = read.result
               /\ IF read.panic # None
                  THEN Panic(read.panic[1])
                  ELSE /\ pc' = "kt_transform"
                       /\ UNCHANGED <<exit, stderr>>
       ELSE IF args.path = None /\ args.value # None
       THEN /\ kp_raw_value' = args.value
            /\ pc' = "kt_transform"
            /\ UNCHANGED <<exit, stderr, stdout, opened>>
       ELSE /\ println("help", None)
            /\ Return
            /\ UNCHANGED <<stderr, kp_raw_value, opened>>
    /\ UNCHANGED <<args, fs, client, tx, kp, tx_result, created, sent>>

\* lines 66-71, with create_keypair and print_transform_keypair (127-132)
KeypairTransform ==
    /\ pc = "kt_transform"
    /\ LET format == OppositeFormat(args.transform[1])
           made == create_keypair(kp_raw_value[1], format)
       IN /\ created' = Append(created, <<kp_raw_value[1], format>>)
          /\ kp' = made
          /\ IF made = None
             THEN /\ Panic("could not create keypair from value")
                  /\ UNCHANGED stdout
             ELSE /\ println("Transformed keypair",
                             EncodeKeypair(made[1], args.transform[1]))
                  /\ Return
                  /\ UNCHANGED stderr
    /\ UNCHANGED <<args, fs, client, tx, kp_raw_value, tx_result, opened, sent>>

\* lines 73-76
ResolveUrl ==
    /\ pc = "match"
    /\ args.cmd = "transaction-send"
    /\ client' = Some(normalize_to_url_if_moniker(args.url[1]))
    /\ println("RpcClient", client')
    /\ pc' = "ts_decode"
    /\ UNCHANGED <<args, fs, exit, stderr, tx, kp_raw_value, kp, tx_result,
                   opened, created, sent>>

\* lines 78-80
DecodeTx_orDefault ==
    /\ pc = "ts_decode"
    /\ LET decoded == DecodeTransaction(args.transaction[1])
       IN tx' = IF decoded = None
                THEN Some([message |-> [signers |-> <<>>,
                                        recent_blockhash |-> "B0",
                                        instructions |-> ""],
                           signatures |-> <<>>])
                ELSE decoded
    /\ println("Decoded tx", tx')
    /\ pc' = "ts_sign"
    /\ UNCHANGED <<args, fs, exit, stderr, client, kp_raw_value, kp, tx_result,
                   opened, created, sent>>
DecodeTx_unsigned ==
    /\ pc = "ts_decode"
    /\ LET decoded == DecodeTransaction(args.transaction[1])
       IN IF decoded = None
          THEN /\ Panic("unwrap on an Err value")
               /\ UNCHANGED <<tx, stdout>>
          ELSE /\ tx' = Some([decoded[1] EXCEPT !.signatures =
                        [i \in 1..Len(decoded[1].signatures) |-> DefaultSignature]])
               /\ println("Decoded tx", tx')
               /\ pc' = "ts_sign"
               /\ UNCHANGED <<exit, stderr>>
    /\ UNCHANGED <<args, fs, client, kp_raw_value, kp, tx_result, opened,
                   created, sent>>
DecodeTx ==
    /\ pc = "ts_decode"
    /\ LET decoded == DecodeTransaction(args.transaction[1])
       IN IF decoded = None
          THEN /\ Panic("unwrap on an Err value")
               /\ UNCHANGED <<tx, stdout>>
          ELSE /\ tx' = decoded
               /\ println("Decoded tx", decoded)
               /\ pc' = "ts_sign"
               /\ UNCHANGED <<exit, stderr>>
    /\ UNCHANGED <<args, fs, client, kp_raw_value, kp, tx_result, opened,
                   created, sent>>

\* lines 81-90 as a function of the decoded transaction, the arguments and
\* the files: what is opened, read, created, printed and signed, and the
\* panic that ends it, if any
SignOutcome_unsignedOnError(t, signer, format, files) ==
    IF signer = None
    THEN [opened |-> {}, lines |-> <<>>, raw |-> None, created |-> <<>>,
          kp |-> None, tx |-> t, panic |-> None]
    ELSE LET read == read_keypair_file_as_str(signer[1], files)
             fmt == SignerFormat(format)
             made == IF read.result = None THEN None
                     ELSE create_keypair(read.result[1], fmt)
             signed == IF made = None THEN None
                       ELSE PartialSign(t, made[1], SignerBlockhash(t))
             calls == IF read.result = None THEN <<>>
                      ELSE <<<<read.result[1], fmt>>>>
         IN IF signed = None
            THEN [opened |-> {signer[1]}, lines |-> read.lines,
                  raw |-> read.result, created |-> calls, kp |-> made,
                  tx |-> t, panic |-> None]
            ELSE [opened |-> {signer[1]},
                  lines |-> read.lines \o <<<<"Signed tx", signed>>>>,
                  raw |-> read.result, created |-> calls, kp |-> made,
                  tx |-> signed[1], panic |-> None]
SignOutcome(t, signer, format, files) ==
    IF signer = None
    THEN [opened |-> {}, lines |-> <<>>, raw |-> None, created |-> <<>>,
          kp |-> None, tx |-> t, panic |-> None]
    ELSE LET read == read_keypair_file_as_str(signer[1], files)
             fmt == SignerFormat(format)
         IN IF read.panic # None
            THEN [opened |-> {signer[1]}, lines |-> read.lines, raw |-> None,
                  created |-> <<>>, kp |-> None, tx |-> t, panic |-> read.panic]
            ELSE LET made == create_keypair(read.result[1], fmt)
                     calls == <<<<read.result[1], fmt>>>>
                 IN IF made = None
                    THEN [opened |-> {signer[1]}, lines |-> read.lines,
                          raw |-> read.result, created |-> calls, kp |-> None,
                          tx |-> t,
                          panic |-> Some("could not create keypair from value")]
                    ELSE LET signed == PartialSign(t, made[1], SignerBlockhash(t))
                         IN IF signed = None
                            THEN [opened |-> {signer[1]}, lines |-> read.lines,
                                  raw |-> read.result, created |-> calls,
                                  kp |-> made, tx |-> t,
                                  panic |-> Some("KeypairPubkeyMismatch")]
                            ELSE [opened |-> {signer[1]},
                                  lines |-> read.lines \o
                                            <<<<"Signed tx", signed>>>>,
                                  raw |-> read.result, created |-> calls,
                                  kp |-> made, tx |-> signed[1],
                                  panic |-> None]

\* lines 81-90
SignTx ==
    /\ pc = "ts_sign"
    /\ LET o == SignOutcome(tx[1], args.signer, args.format, fs)
       IN /\ opened' = opened \cup o.opened
          /\ stdout' = stdout \o o.lines
          /\ kp_raw_value' = o.raw
          /\ created' = created \o o.created
          /\ kp' = o.kp
          /\ tx' = Some(o.tx)
          /\ IF o.panic # None
             THEN Panic(o.panic[1])
             ELSE /\ pc' = "ts_submit"
                  /\ UNCHANGED <<exit, stderr>>
    /\ UNCHANGED <<args, fs, client, tx_result, sent>>

\* what the node can answer to send_and_confirm_transaction
NodeResults(t) ==
    {[ok |-> TRUE, val |-> IF t.signatures = <<>> THEN DefaultSignature
                           ELSE t.signatures[1]],
     [ok |-> FALSE, val |-> DefaultSignature]}

\* lines 92-93
Submit ==
    /\ pc = "ts_submit"
    /\ println("Send tx to blockchain", None)
    /\ sent' = Append(sent, tx[1])
    /\ \E r \in NodeResults(tx[1]) : tx_result' = Some(r)
    /\ pc' = "ts_report"
    /\ UNCHANGED <<args, fs, exit, stderr, client, tx, kp_raw_value, kp,
                   opened, created>>

\* lines 94-97
Report_failOnError ==
    /\ pc = "ts_report"
    /\ IF tx_result[1].ok
       THEN /\ println("Tx executed SUCCESS", tx_result[1].val)
            /\ Return
            /\ UNCHANGED stderr
       ELSE /\ Panic("Tx executed FAILED")
            /\ UNCHANGED stdout
    /\ UNCHANGED <<args, fs, client, tx, kp_raw_value, kp, tx_result, opened,
                   created, sent>>
Report_retry ==
    /\ pc = "ts_report"
    /\ IF tx_result[1].ok
       THEN /\ println("Tx executed SUCCESS", tx_result[1].val)
            /\ Return
       ELSE /\ println("Tx executed FAILED", tx_result[1].val)
            /\ IF Len(sent) < 2
               THEN pc' = "ts_submit" /\ UNCHANGED exit
               ELSE Return
    /\ UNCHANGED <<args, fs, stderr, client, tx, kp_raw_value, kp, tx_result,
                   opened, created, sent>>
Report ==
    /\ pc = "ts_report"
    /\ IF tx_result[1].ok
       THEN println("Tx executed SUCCESS", tx_result[1].val)
       ELSE println("Tx executed FAILED", tx_result[1].val)
    /\ Return
    /\ UNCHANGED <<args, fs, stderr, client, tx, kp_raw_value, kp, tx_result,
                   opened, created, sent>>

Next ==
    \/ Parse
    \/ NoCommand
    \/ KeypairSource
    \/ KeypairTransform
    \/ ResolveUrl
    \/ DecodeTx
    \/ SignTx
    \/ Submit
    \/ Report

Spec == Init /\ [][Next]_vars

\* ------------------------------------------------------------- properties
Tags(out) == [i \in 1..Len(out) |-> out[i][1]]
HasTag(t) == \E i \in 1..Len(stdout) : stdout[i][1] = t
Exited == pc = "exited"

IsKeypairTransform == args.cmd = "keypair-transform"
BothSources == IsKeypairTransform /\ args.path # None /\ args.value # None
NeitherSource == IsKeypairTransform /\ args.path = None /\ args.value = None
NothingDecoded ==
    /\ created = <<>>
    /\ kp = None
    /\ opened = {}
    /\ ~HasTag("Transformed keypair")

\* C1 as stated: keypair-transform with both --path and --value, or with
\* neither, ends in a parse failure (exit status 2) and decodes nothing.
C1_Original ==
    (BothSources \/ NeitherSource) =>
        /\ NothingDecoded
        /\ Exited => exit = Some(2)

\* C1 amended: with neither source clap rejects the command line (exit
\* status 2, nothing on stdout); with both sources and --transform present
\* parsing succeeds, the handler prints the help text on stdout and the
\* process exits with status 0; in both cases no file is opened, no keypair
\* is decoded and nothing is transformed.
C1_Amended ==
    /\ NeitherSource =>
        /\ NothingDecoded
        /\ Exited => (exit = Some(2) /\ stdout = <<>>)
    /\ BothSources =>
        /\ NothingDecoded
        /\ Exited => IF args.transform = None
                     THEN exit = Some(2) /\ stdout = <<>>
                     ELSE exit = Some(0) /\ Tags(stdout) = <<"help">>

C1_Witness ==
    /\ BothSources
    /\ args.transform # None
    /\ Exited
    /\ exit = Some(0)
    /\ Tags(stdout) = <<"help">>

IsTransactionSend ==
    /\ args.cmd = "transaction-send"
    /\ args.url # None
    /\ args.transaction # None
MalformedTransaction ==
    /\ IsTransactionSend
    /\ DecodeTransaction(args.transaction[1]) = None

\* C2: a transaction-send run whose --transaction fails base64 decoding or
\* deserialization panics (exit status 101) and never reaches the
\* submit-and-confirm call, whatever --url, --signer and --format are.
C2_MalformedNeverSent ==
    MalformedTransaction =>
        /\ sent = <<>>
        /\ tx_result = None
        /\ tx = None
        /\ ~HasTag("Send tx to blockchain")
        /\ pc \in {"parse", "match", "ts_decode", "exited"}
        /\ Exited => exit = Some(101)

C2_Witness ==
    /\ MalformedTransaction
    /\ args.transaction[1] = "AAAA"
    /\ args.signer # None
    /\ exit = Some(101)

\* C3 as stated: when a failure upstream of the submission aborts the
\* process, nothing has been written to standard output.
C3_Original == exit = Some(101) => stdout = <<>>

\* the lines already on stdout when a failure upstream of the submission
\* panics
LinesBeforeAbort ==
    IF IsKeypairTransform
    THEN IF args.path # None /\ args.value = None /\ fs[args.path[1]] # None
         THEN <<"Read keypair">> ELSE <<>>
    ELSE IF MalformedTransaction THEN <<"RpcClient">>
    ELSE IF fs[args.signer[1]] = None THEN <<"RpcClient", "Decoded tx">>
    ELSE <<"RpcClient", "Decoded tx", "Read keypair">>

\* C3 amended: a failure upstream of the submission aborts the process
\* before any result is written and before anything is submitted; at the
\* abort, stdout holds exactly the progress lines of the steps already done
\* (RpcClient, Decoded tx, Read keypair) and never Signed tx, Send tx to
\* blockchain, Tx executed or Transformed keypair.
C3_Amended ==
    exit = Some(101) =>
        /\ sent = <<>>
        /\ tx_result = None
        /\ Tags(stdout) = LinesBeforeAbort

C3_Witness ==
    /\ exit = Some(101)
    /\ IsTransactionSend
    /\ kp = None
    /\ Tags(stdout) = <<"RpcClient", "Decoded tx", "Read keypair">>

\* C4: once submit-and-confirm has been called, the run ends with exit
\* status 0 whatever the node answered: the signature is printed on Ok, the
\* error on Err, and the run never panics or exits non-zero.
C4_SubmissionAlwaysReported ==
    sent # <<>> =>
        /\ tx_result # None
        /\ exit \in {None, Some(0)}
        /\ Exited =>
            /\ exit = Some(0)
            /\ stdout[Len(stdout)][1] =
                  IF tx_result[1].ok THEN "Tx executed SUCCESS"
                                     ELSE "Tx executed FAILED"
            /\ stdout[Len(stdout)][2] = tx_result[1].val
            /\ tx_result[1].ok => tx_result[1].val = sent[1].signatures[1]

C4_Witness ==
    /\ sent # <<>>
    /\ Exited
    /\ ~tx_result[1].ok
    /\ exit = Some(0)
    /\ HasTag("Tx executed FAILED")

OneSource ==
    /\ IsKeypairTransform
    /\ args.transform # None
    /\ (args.path = None) # (args.value = None)
InputText == IF args.value # None THEN args.value ELSE fs[args.path[1]]

\* C5: keypair-transform with exactly one source decodes the input in the
\* format opposite to --transform (Base58 target: Bytes input; Bytes target:
\* Base58 input), never in the target format, and prints the keypair
\* encoded in the target format.
C5_OppositeDecode ==
    OneSource =>
        /\ Len(created) <= 1
        /\ \A i \in 1..Len(created) :
              /\ created[i][1] = InputText[1]
              /\ created[i][2] # args.transform[1]
              /\ args.transform[1] = "Base58" => created[i][2] = "Bytes"
              /\ args.transform[1] = "Bytes" => created[i][2] = "Base58"
        /\ (Exited /\ exit = Some(0)) =>
              /\ Len(created) = 1
              /\ kp # None
              /\ stdout[Len(stdout)][1] = "Transformed keypair"
              /\ stdout[Len(stdout)][2].key = kp[1]
              /\ stdout[Len(stdout)][2].enc =
                    IF args.transform[1] = "Base58" THEN "base58" ELSE "bytes"

C5_Witness ==
    /\ OneSource
    /\ args.transform[1] = "Base58"
    /\ Exited
    /\ exit = Some(0)
    /\ created = <<<<InputText[1], "Bytes">>>>
    /\ HasTag("Transformed keypair")

NoSignerRun == IsTransactionSend /\ args.signer = None
SignerRun == IsTransactionSend /\ args.signer # None
Decoded == DecodeTransaction(args.transaction[1])[1]

\* C6: transaction-send without --signer submits exactly the transaction
\* decoded from --transaction (message, blockhash and every signature slot
\* unchanged) and reads no keypair file.
C6_NoSignerUnmodified ==
    NoSignerRun =>
        /\ opened = {}
        /\ created = <<>>
        /\ kp = None
        /\ ~HasTag("Read keypair")
        /\ ~HasTag("Signed tx")
        /\ \A i \in 1..Len(sent) : sent[i] = Decoded

C6_Witness ==
    /\ NoSignerRun
    /\ args.format # None
    /\ sent = <<TxMulti>>

\* the transaction is the decoded one with the keypair's signature over the
\* decoded message in the keypair's slot and every other slot untouched
SignedWith(t, k) ==
    /\ t.message = Decoded.message
    /\ t.message.recent_blockhash = Decoded.message.recent_blockhash
    /\ Len(t.signatures) = Len(Decoded.signatures)
    /\ \E p \in 1..Len(t.signatures) :
          /\ Decoded.message.signers[p] = Pubkey(k)
          /\ t.signatures[p] = [by |-> Pubkey(k), over |-> Some(Decoded.message)]
          /\ \A q \in 1..Len(t.signatures) :
                q # p => t.signatures[q] = Decoded.signatures[q]

IsRequiredSigner(k) ==
    \E p \in 1..Len(Decoded.message.signers) :
        Decoded.message.signers[p] = Pubkey(k)

\* C7 as stated: on every transaction-send run whose signer keypair decodes,
\* the sign step adds the signer's partial signature, bound to the blockhash
\* the transaction carries, leaving message and blockhash as decoded.
C7_Original ==
    (SignerRun /\ kp # None) =>
        /\ exit # Some(101)
        /\ SignedWith(tx[1], kp[1])

\* C7 amended: when the signer keypair decodes and its public key is one of
\* the transaction's required signers, the sign step writes exactly one
\* signature slot, the signer's, with a signature over the message with the
\* blockhash the transaction already carries; message, blockhash and the
\* other slots stay as decoded and no other blockhash is used.  When the
\* public key is not a required signer, partial_sign panics: the process
\* aborts with the transaction untouched and nothing submitted.
C7_Amended ==
    (SignerRun /\ kp # None) =>
        IF IsRequiredSigner(kp[1])
        THEN /\ exit # Some(101)
             /\ SignedWith(tx[1], kp[1])
             /\ HasTag("Signed tx")
        ELSE /\ exit = Some(101)
             /\ tx[1] = Decoded
             /\ sent = <<>>
             /\ ~HasTag("Signed tx")

C7_Witness ==
    /\ SignerRun
    /\ kp # None
    /\ pc = "ts_submit"
    /\ SignedWith(tx[1], kp[1])
    /\ tx[1] # Decoded

\* C8: the signer's keypair text is decoded in the --format given, in Bytes
\* when --format is omitted, and in Base58 only when --format Base58 is given.
C8_SignerFormat ==
    SignerRun =>
        /\ Len(created) <= 1
        /\ \A i \in 1..Len(created) :
              /\ created[i][1] = fs[args.signer[1]][1]
              /\ args.format = None => created[i][2] = "Bytes"
              /\ args.format # None => created[i][2] = args.format[1]
              /\ created[i][2] = "Base58" => args.format = Some("Base58")

C8_Witness ==
    /\ SignerRun
    /\ args.format = None
    /\ Len(created) = 1
    /\ created[1][2] = "Bytes"
    /\ kp # None

StageOfLine(tag) ==
    CASE tag = "RpcClient" -> 1
      [] tag = "Decoded tx" -> 2
      [] tag \in {"Read keypair", "Signed tx"} -> 3
      [] tag = "Send tx to blockchain" -> 4
      [] tag \in {"Tx executed SUCCESS", "Tx executed FAILED"} -> 5
      [] OTHER -> 0
StageOfPc(p) ==
    CASE p = "parse" -> 0
      [] p = "match" -> 1
      [] p \in {"ts_decode", "kt_transform"} -> 2
      [] p = "ts_sign" -> 3
      [] p = "ts_submit" -> 4
      [] p = "ts_report" -> 5
      [] p = "exited" -> 6

StagesInOrder ==
    IsTransactionSend =>
        /\ \A i, j \in 1..Len(stdout) :
              i < j => /\ StageOfLine(stdout[i][1]) <= StageOfLine(stdout[j][1])
                       /\ stdout[i][1] # stdout[j][1]
        /\ \A i \in 1..Len(stdout) : StageOfLine(stdout[i][1]) > 0
        /\ Len(sent) <= 1
        /\ sent # <<>> =>
              /\ client # None
              /\ DecodeTransaction(args.transaction[1]) # None
              /\ HasTag("Decoded tx")
              /\ args.signer # None => HasTag("Signed tx")
        /\ (HasTag("Read keypair") \/ HasTag("Signed tx")) => args.signer # None
        /\ (HasTag("Tx executed SUCCESS") \/ HasTag("Tx executed FAILED")) =>
              /\ sent # <<>>
              /\ tx_result # None

\* C9: a transaction-send run goes through Resolve URL, Decode, Sign (only
\* with a signer), Submit-and-confirm, Report in that order and never goes
\* back: at most one submission, only after a successful decode, and a
\* report only after the submission returned.
C9_LinearStages == []StagesInOrder /\ [][StageOfPc(pc') > StageOfPc(pc)]_vars

C9_Witness ==
    /\ IsTransactionSend
    /\ Exited
    /\ Tags(stdout) = <<"RpcClient", "Decoded tx", "Read keypair", "Signed tx",
                        "Send tx to blockchain", "Tx executed SUCCESS">>

SignerUnusable ==
    \/ fs[args.signer[1]] = None
    \/ create_keypair(fs[args.signer[1]][1],
                      IF args.format = None THEN "Bytes" ELSE args.format[1]) = None

\* C10: on a --signer run nothing is submitted without the signer's partial
\* signature: an unreadable signer file or an undecodable keypair text
\* aborts before submit-and-confirm, and every submitted transaction
\* carries the signer's signature.
C10_NeverSentUnsigned ==
    SignerRun =>
        /\ \A i \in 1..Len(sent) :
              /\ kp # None
              /\ \E p \in 1..Len(sent[i].signatures) :
                    /\ sent[i].message.signers[p] = Pubkey(kp[1])
                    /\ sent[i].signatures[p] =
                          [by |-> Pubkey(kp[1]), over |-> Some(sent[i].message)]
        /\ SignerUnusable =>
              /\ sent = <<>>
              /\ tx_result = None
              /\ Exited => exit = Some(101)

C10_Witness ==
    /\ SignerRun
    /\ sent # <<>>
    /\ tx_result # None
    /\ kp # None
    /\ ~SignerUnusable
====
